---------------------------- MODULE Spec2Model ----------------------------
(***************************************************************************)
(* The rosbag2 reindexer: bag_metadata.MetadataWriter (the in-memory      *)
(* metadata.yaml model and its writer), reindex_sqlite (the sqlite3        *)
(* aggregator and its reindex entry point) and reindex_base (the dispatch  *)
(* on the storage identifier).                                             *)
(*                                                                         *)
(* Python strings that are compared or sorted are sequences of             *)
(* one-character strings, ordered by code point as str.__lt__ orders them. *)
(* A call is one action: it leaves its name, its arguments, the exception  *)
(* it raised (or NoExc) and its return value in `result`.                  *)
(***************************************************************************)
EXTENDS Integers, Sequences, FiniteSets, TLC

VARIABLES
    metadata,          \* the MetadataWriter instance (its nine private fields)
    fs,                \* the files: Path -> content
    result,            \* the last call: op, args, exc, ret
    open_connections,  \* sqlite3 connections opened and not closed
    open_files,        \* file handles opened and not closed
    added_paths,       \* the Paths given to successful add_rel_* calls, in order
    failed_add,        \* whether an add_rel_* call of this instance has raised
    added_topics       \* the arguments of the successful add_topic calls, in order

vars == <<metadata, fs, result, open_connections, open_files,
          added_paths, failed_add, added_topics>>

---------------------------------------------------------------------------
(* Bounds of the model *)

\* numeric arguments range over -1 .. MaxNum
MaxNum == 1
\* longest relative_file_paths list the model builds
MaxPaths == 3
\* longest list handed to add_multiple_rel_file_paths
MaxBatch == 2
\* longest topics list the model builds
MaxTopics == 2
\* most connections the model lets dangle at once
MaxOpen == 2
\* sys.maxsize, and with it the width of a timestamp, scaled down
maxsize == 1

Nums == (0 - 1)..MaxNum

---------------------------------------------------------------------------
(* Python values *)

None == [type |-> "None"]
NoExc == [type |-> "NoExc"]
ValueError(message, value) == [type |-> "ValueError", msg |-> message, value |-> value]

\* what a call does: the object after it, the exception raised, the value returned
Return(self, value) == [self |-> self, exc |-> NoExc, ret |-> value]
Raise(self, exc) == [self |-> self, exc |-> exc, ret |-> None]

\* ord(c) of the characters the model's strings are written in
ord(c) ==
    CASE c = "." -> 46 [] c = "/" -> 47 [] c = "3" -> 51 [] c = "a" -> 97
      [] c = "b" -> 98 [] c = "d" -> 100 [] c = "e" -> 101 [] c = "g" -> 103
      [] c = "l" -> 108 [] c = "m" -> 109 [] c = "t" -> 116 [] c = "x" -> 120
      [] c = "y" -> 121

\* s < t on str: the first differing code point decides, a proper prefix is smaller
str_lt(s, t) ==
    \E i \in 1..Len(t) :
        /\ i <= Len(s) + 1
        /\ \A j \in 1..(i - 1) : s[j] = t[j]
        /\ (i <= Len(s) => ord(s[i]) < ord(t[i]))

\* x put into the sorted list l, after the elements that are not greater
insort(l, x) ==
    LET k == Cardinality({i \in 1..Len(l) : ~str_lt(x, l[i])})
    IN  SubSeq(l, 1, k) \o <<x>> \o SubSeq(l, k + 1, Len(l))

\* list.sort() on a list of str
RECURSIVE list_sort(_)
list_sort(l) ==
    IF l = <<>> THEN <<>>
    ELSE insort(list_sort(SubSeq(l, 1, Len(l) - 1)), l[Len(l)])

---------------------------------------------------------------------------
(* pathlib *)

\* s.split('/')
RECURSIVE split(_)
split(s) ==
    IF s = <<>> THEN << <<>> >>
    ELSE LET rest == split(Tail(s))
         IN  IF Head(s) = "/" THEN << <<>> >> \o rest
             ELSE << <<Head(s)>> \o Head(rest) >> \o Tail(rest)

\* pathlib.Path(s): the root, and the components that are neither empty nor '.'
Path(s) ==
    [anchor |-> IF s # <<>> /\ s[1] = "/" THEN "/" ELSE "",
     parts  |-> SelectSeq(split(s), LAMBDA c : c # <<>> /\ c # <<".">>)]

RECURSIVE join(_)
join(parts) ==
    IF Len(parts) = 1 THEN parts[1]
    ELSE parts[1] \o <<"/">> \o join(Tail(parts))

\* str(p)
str(p) ==
    IF p.parts = <<>> THEN (IF p.anchor = "/" THEN <<"/">> ELSE <<".">>)
    ELSE (IF p.anchor = "/" THEN <<"/">> ELSE <<>>) \o join(p.parts)

\* p.is_absolute()
is_absolute(p) == p.anchor = "/"

\* p / name
truediv(p, name) == [p EXCEPT !.parts = Append(@, name)]

\* p.suffix: the last component from its last dot, unless that dot leads or ends it
suffix(p) ==
    IF p.parts = <<>> THEN <<>>
    ELSE LET name == p.parts[Len(p.parts)]
             dots == {i \in 1..Len(name) : name[i] = "."}
         IN  IF dots = {} THEN <<>>
             ELSE LET k == CHOOSE i \in dots : \A j \in dots : j <= i
                  IN  IF 1 < k /\ k < Len(name) THEN SubSeq(name, k, Len(name))
                      ELSE <<>>

---------------------------------------------------------------------------
(* bag_metadata.py *)

block_as_dict(topic_block) ==
    [topic |-> topic_block.block_name,
     type |-> topic_block.block_type,
     serialization_format |-> topic_block.block_ser,
     offered_qos_profiles |-> topic_block.block_qos]

topic_as_dict(topic) ==
    [topic_metadata |-> block_as_dict(topic.tm_block),
     message_count |-> topic.tm_message_count]

\* MetadataWriter.__init__
MetadataWriter ==
    [version |-> 0,
     storage_identifier |-> "",
     relative_file_paths |-> <<>>,
     duration |-> 0,
     starting_time |-> 0,
     message_count |-> 0,
     topics |-> <<>>,
     compression_format |-> "",
     compression_mode |-> ""]

version_setter_clamps(self, x) ==
    Return([self EXCEPT !.version = IF x < 0 THEN 0 ELSE x], None)

version_setter(self, x) ==
    IF x < 0
    THEN Raise(self, ValueError("Version must be greater than 0, got {}", x))
    ELSE Return([self EXCEPT !.version = x], None)

storage_identifier_setter(self, s) ==
    Return([self EXCEPT !.storage_identifier = s], None)

add_rel_file_path(self, fp) ==
    IF is_absolute(fp)
    THEN Raise(self, ValueError("Cannot add absolute path to relative filepaths. Got path: {}", fp))
    ELSE Return([self EXCEPT !.relative_file_paths = Append(@, str(fp))], None)

\* the loop of add_multiple_rel_file_paths, from its i-th path on
RECURSIVE add_multiple_loop(_, _, _)
add_multiple_loop(self, fps, i) ==
    IF i > Len(fps) THEN Return(self, None)
    ELSE IF is_absolute(fps[i])
    THEN Raise(self, ValueError("Cannot add absolute path to relative filepaths. Got path: {}", fps[i]))
    ELSE add_multiple_loop([self EXCEPT !.relative_file_paths = Append(@, str(fps[i]))],
                           fps, i + 1)

add_multiple_rel_file_paths(self, fps) == add_multiple_loop(self, fps, 1)

duration_setter(self, x) ==
    IF x < 0
    THEN Raise(self, ValueError("Duration cannot be negative. Got {}", x))
    ELSE Return([self EXCEPT !.duration = x], None)

starting_time_setter(self, x) ==
    IF x < 0
    THEN Raise(self, ValueError("Starting time cannot be negative. Got {}", x))
    ELSE Return([self EXCEPT !.starting_time = x], None)

message_count_setter(self, x) ==
    IF x < 0
    THEN Raise(self, ValueError("Message count cannot be negative. Got {}", x))
    ELSE Return([self EXCEPT !.message_count = x], None)

add_topic_sorted_by_name(self, topic_name, topic_type, topic_ser_fmt, topic_qos, topic_count) ==
    IF topic_count < 0
    THEN Raise(self, ValueError("Topic message count cannot be negative. Got {}", topic_count))
    ELSE LET new_topic ==
                 [tm_block |-> [block_name |-> topic_name, block_type |-> topic_type,
                                block_ser |-> topic_ser_fmt, block_qos |-> topic_qos],
                  tm_message_count |-> topic_count]
             before == SelectSeq(self.topics,
                                 LAMBDA t : t.tm_block.block_name # topic_name)
         IN  Return([self EXCEPT !.topics = <<new_topic>> \o before], None)

add_topic(self, topic_name, topic_type, topic_ser_fmt, topic_qos, topic_count) ==
    IF topic_count < 0
    THEN Raise(self, ValueError("Topic message count cannot be negative. Got {}", topic_count))
    ELSE LET topic_block ==
                 [block_name |-> topic_name, block_type |-> topic_type,
                  block_ser |-> topic_ser_fmt, block_qos |-> topic_qos]
             new_topic ==
                 [tm_block |-> topic_block, tm_message_count |-> topic_count]
         IN  Return([self EXCEPT !.topics = Append(@, new_topic)], None)

compression_format_setter(self, f) ==
    Return([self EXCEPT !.compression_format = f], None)

compression_mode_setter(self, m) ==
    Return([self EXCEPT !.compression_mode = m], None)

as_yaml_dict_unsorted(self) ==
    Return(self,
           [version |-> self.version,
            storage_identifier |-> self.storage_identifier,
            relative_file_paths |-> self.relative_file_paths,
            duration |-> [nanoseconds |-> self.duration],
            starting_time |-> [nanoseconds_since_epoch |-> self.starting_time],
            message_count |-> self.message_count,
            topics_with_message_count |->
                [i \in 1..Len(self.topics) |-> topic_as_dict(self.topics[i])],
            compression_format |-> self.compression_format,
            compression_mode |-> self.compression_mode])

\* _as_yaml_dict: sorts the stored path list in place, then reads every field
as_yaml_dict(self) ==
    LET sorted == [self EXCEPT !.relative_file_paths = list_sort(@)]
    IN  Return(sorted,
               [version |-> sorted.version,
                storage_identifier |-> sorted.storage_identifier,
                relative_file_paths |-> sorted.relative_file_paths,
                duration |-> [nanoseconds |-> sorted.duration],
                starting_time |-> [nanoseconds_since_epoch |-> sorted.starting_time],
                message_count |-> sorted.message_count,
                topics_with_message_count |->
                    [i \in 1..Len(sorted.topics) |-> topic_as_dict(sorted.topics[i])],
                compression_format |-> sorted.compression_format,
                compression_mode |-> sorted.compression_mode])

\* the file system: the directories (none is ever made or removed) and, in `fs`,
\* the content of every file, keyed by its Path; a metadata.yaml holds the
\* dumped dictionary
bag == [anchor |-> "", parts |-> << <<"b", "a", "g">> >>]
root_bag == [anchor |-> "/", parts |-> << <<"b", "a", "g">> >>]
Dirs == {bag, root_bag}

a_db3 == <<"a", ".", "d", "b", "3">>
b_db3 == <<"b", ".", "d", "b", "3">>
x_txt == <<"x", ".", "t", "x", "t">>
metadata_yaml == <<"m", "e", "t", "a", "d", "a", "t", "a", ".", "y", "a", "m", "l">>

\* p.is_dir()
is_dir(p) == p \in Dirs

\* p.parent
parent(p) == [p EXCEPT !.parts = SubSeq(@, 1, Len(@) - 1)]

\* every order in which the members of S can be listed
orderings(S) ==
    {q \in [1..Cardinality(S) -> S] : \A i, j \in 1..Cardinality(S) : q[i] = q[j] => i = j}

\* d.iterdir(): the children of d, in an order the operating system picks
iterdir(files, d) == orderings({f \in DOMAIN files : parent(f) = d})

write_yaml_unchecked(self, files, bag_dir) ==
    LET d == as_yaml_dict(self)
    IN  [self |-> d.self, exc |-> NoExc, ret |-> None,
         fs |-> (truediv(bag_dir, metadata_yaml) :> [rosbag2_bagfile_information |-> d.ret])
                    @@ files,
         opened |-> 1, closed |-> 1]

\* write_yaml: also gives the files after the call and the handles it opened and closed
write_yaml(self, files, bag_dir) ==
    IF ~is_dir(bag_dir)
    THEN [self |-> self,
          exc |-> ValueError("Expected a directory to output yaml file to. Got path: {}", bag_dir),
          ret |-> None, fs |-> files, opened |-> 0, closed |-> 0]
    ELSE LET d == as_yaml_dict(self)
             yaml_dict == [rosbag2_bagfile_information |-> d.ret]
             fp == truediv(bag_dir, metadata_yaml)
         IN  [self |-> d.self, exc |-> NoExc, ret |-> None,
              fs |-> (fp :> yaml_dict) @@ files, opened |-> 1, closed |-> 1]

---------------------------------------------------------------------------
(* reindex_sqlite.py *)

\* a data file: whether it holds the messages and topics tables, and its
\* messages as (topic name, timestamp) pairs; COUNT counts the pairs of a topic
TopicNames == {"/x", "/y"}
Timestamps == (0 - 1)..maxsize
Databases ==
    {[has_tables |-> TRUE, messages |-> ms] : ms \in SUBSET (TopicNames \X Timestamps)}
        \cup {[has_tables |-> FALSE, messages |-> {}]}

topic_type(name) == IF name = "/x" THEN "test_msgs/msg/BasicTypes" ELSE "test_msgs/msg/Arrays"

\* the rows of the SELECT ... JOIN ... GROUP BY topics.name query: one per topic
\* that has messages, with COUNT, MIN and MAX of its messages
query(db) ==
    {LET ts == {m[2] : m \in {n \in db.messages : n[1] = name}}
     IN  <<name, topic_type(name), "cdr", Cardinality(ts),
           CHOOSE t \in ts : \A u \in ts : t <= u,
           CHOOSE t \in ts : \A u \in ts : t >= u,
           "qos">> : name \in {n \in TopicNames : \E m \in db.messages : m[1] = n}}

\* the for loop of get_metadata over the cursor's rows, from the i-th on
RECURSIVE get_metadata_loop(_, _, _, _, _)
get_metadata_loop(rows, i, topics, min_time, max_time) ==
    IF i > Len(rows)
    THEN [topic_metadata |-> topics, min_time |-> min_time, max_time |-> max_time]
    ELSE LET row == rows[i]
         IN  get_metadata_loop(
                 rows, i + 1,
                 Append(topics, [topic_name |-> row[1], topic_type |-> row[2],
                                 topic_ser_fmt |-> row[3], message_count |-> row[4],
                                 offered_qos_profiles |-> row[7]]),
                 IF row[5] < min_time THEN row[5] ELSE min_time,
                 IF row[6] > max_time THEN row[6] ELSE max_time)

get_metadata_zero_min(db, rows) ==
    IF ~db.has_tables
    THEN [exc |-> [type |-> "sqlite3.OperationalError", msg |-> "no such table: messages"],
          ret |-> None, opened |-> 1, closed |-> 0]
    ELSE [exc |-> NoExc, ret |-> get_metadata_loop(rows, 1, <<>>, 0, 0),
          opened |-> 1, closed |-> 0]

\* get_metadata on a data file whose cursor yields `rows`: connects, queries,
\* folds the rows; no path closes the connection
get_metadata(db, rows) ==
    IF ~db.has_tables
    THEN [exc |-> [type |-> "sqlite3.OperationalError", msg |-> "no such table: messages"],
          ret |-> None, opened |-> 1, closed |-> 0]
    ELSE [exc |-> NoExc, ret |-> get_metadata_loop(rows, 1, <<>>, maxsize, 0),
          opened |-> 1, closed |-> 0]

\* [f for f in listing if f.suffix == '.db3']
db3_files(listing) == SelectSeq(listing, LAMBDA f : suffix(f) = <<".", "d", "b", "3">>)

\* reindex_sqlite.reindex, with `listing` what uri_dir.iterdir() yields
reindex_sqlite_reindex(self, uri, serialization_fmt, compression_fmt, compression_mode, listing) ==
    LET uri_dir == Path(uri)
    IN  IF ~is_dir(uri_dir)
        THEN Raise(self, ValueError("Reindex needs a bag directory. Was given path {}", uri))
        ELSE LET rel_file_paths == db3_files(listing)
                 m1 == version_setter(MetadataWriter, 4)
                 m2 == storage_identifier_setter(m1.self, "sqlite3")
                 m3 == add_multiple_rel_file_paths(m2.self, rel_file_paths)
                 m4 == compression_format_setter(m3.self, compression_fmt)
                 m5 == compression_mode_setter(m4.self, compression_mode)
             IN  IF m3.exc # NoExc THEN m3 ELSE Return(m5.self, None)

---------------------------------------------------------------------------
(* reindex_base.py *)

\* ros2bag.api.print_error, as reindex uses it: the value it returns is the
\* message it was given, here the format string and the value formatted into it
print_error(message, value) == [type |-> "str", msg |-> message, value |-> value]

reindex_base_reindex_raises(self, uri, storage_id, serialization_fmt, compression_fmt, compression_mode, listing) ==
    IF storage_id = "sqlite3"
    THEN reindex_sqlite_reindex(self, uri, serialization_fmt, compression_fmt,
                                compression_mode, listing)
    ELSE Raise(self, ValueError("Reindex for storage type {} not implemented", storage_id))

reindex_base_reindex(self, uri, storage_id, serialization_fmt, compression_fmt, compression_mode, listing) ==
    IF storage_id = "sqlite3"
    THEN reindex_sqlite_reindex(self, uri, serialization_fmt, compression_fmt,
                                compression_mode, listing)
    ELSE Return(self, print_error("Reindex for storage type {} not implemented", storage_id))

---------------------------------------------------------------------------
(* The state machine *)

InitialFiles ==
    [f \in {truediv(bag, a_db3), truediv(bag, b_db3), truediv(bag, x_txt),
            truediv(root_bag, a_db3), truediv(root_bag, b_db3)} |-> "data"]

Init ==
    /\ metadata = MetadataWriter
    /\ fs = InitialFiles
    /\ result = [op |-> "__init__", args |-> <<>>, exc |-> NoExc, ret |-> None]
    /\ open_connections = 0
    /\ open_files = 0
    /\ added_paths = <<>>
    /\ failed_add = FALSE
    /\ added_topics = <<>>

\* a call that touches the MetadataWriter only
Call(op, args, r) ==
    /\ metadata' = r.self
    /\ result' = [op |-> op, args |-> args, exc |-> r.exc, ret |-> r.ret]

set_version ==
    \E x \in Nums :
        /\ Call("version", <<x>>, version_setter(metadata, x))
        /\ UNCHANGED <<fs, open_connections, open_files, added_paths, failed_add, added_topics>>

set_storage_identifier ==
    \E s \in {"", "sqlite3"} :
        /\ Call("storage_identifier", <<s>>, storage_identifier_setter(metadata, s))
        /\ UNCHANGED <<fs, open_connections, open_files, added_paths, failed_add, added_topics>>

set_duration ==
    \E x \in Nums :
        /\ Call("duration", <<x>>, duration_setter(metadata, x))
        /\ UNCHANGED <<fs, open_connections, open_files, added_paths, failed_add, added_topics>>

set_starting_time ==
    \E x \in Nums :
        /\ Call("starting_time", <<x>>, starting_time_setter(metadata, x))
        /\ UNCHANGED <<fs, open_connections, open_files, added_paths, failed_add, added_topics>>

set_message_count ==
    \E x \in Nums :
        /\ Call("message_count", <<x>>, message_count_setter(metadata, x))
        /\ UNCHANGED <<fs, open_connections, open_files, added_paths, failed_add, added_topics>>

set_compression_format ==
    \E f \in {"", "zstd"} :
        /\ Call("compression_format", <<f>>, compression_format_setter(metadata, f))
        /\ UNCHANGED <<fs, open_connections, open_files, added_paths, failed_add, added_topics>>

set_compression_mode ==
    \E m \in {"", "file"} :
        /\ Call("compression_mode", <<m>>, compression_mode_setter(metadata, m))
        /\ UNCHANGED <<fs, open_connections, open_files, added_paths, failed_add, added_topics>>

\* the Paths handed to the add_rel_* calls: three relative, one absolute
PathInputs ==
    {[anchor |-> "", parts |-> <<b_db3>>],
     [anchor |-> "", parts |-> <<a_db3>>],
     [anchor |-> "", parts |-> << <<"a">>, b_db3 >>],
     [anchor |-> "/", parts |-> <<a_db3>>]}

\* the bag of the members of a list
BagOfSeq(q) == [x \in {q[i] : i \in 1..Len(q)} |-> Cardinality({i \in 1..Len(q) : q[i] = x})]

add_relative_path ==
    \E fp \in PathInputs :
        LET r == add_rel_file_path(metadata, fp)
        IN  /\ Len(metadata.relative_file_paths) < MaxPaths
            /\ Call("add_rel_file_path", <<fp>>, r)
            /\ added_paths' = IF r.exc = NoExc THEN Append(added_paths, fp)
                              ELSE added_paths
            /\ failed_add' = (failed_add \/ r.exc # NoExc)
            /\ UNCHANGED <<fs, open_connections, open_files, added_topics>>

add_relative_paths ==
    \E n \in 0..MaxBatch :
        \E fps \in [1..n -> PathInputs] :
            LET r == add_multiple_rel_file_paths(metadata, fps)
            IN  /\ Len(metadata.relative_file_paths) + n <= MaxPaths
                /\ Call("add_multiple_rel_file_paths", <<fps>>, r)
                /\ added_paths' = IF r.exc = NoExc THEN added_paths \o fps
                                  ELSE added_paths
                /\ failed_add' = (failed_add \/ r.exc # NoExc)
                /\ UNCHANGED <<fs, open_connections, open_files, added_topics>>

add_channel ==
    \E name \in TopicNames, count \in Nums :
        LET r == add_topic(metadata, name, topic_type(name), "cdr", "qos", count)
        IN  /\ Len(metadata.topics) < MaxTopics
            /\ Call("add_topic", <<name, topic_type(name), "cdr", "qos", count>>, r)
            /\ added_topics' = IF r.exc = NoExc
                               THEN Append(added_topics,
                                           <<name, topic_type(name), "cdr", "qos", count>>)
                               ELSE added_topics
            /\ UNCHANGED <<fs, open_connections, open_files, added_paths, failed_add>>

serialize ==
    /\ Call("_as_yaml_dict", <<>>, as_yaml_dict(metadata))
    /\ UNCHANGED <<fs, open_connections, open_files, added_paths, failed_add, added_topics>>

\* the directories write_yaml is pointed at: one that exists, one that does not,
\* and a file
WriteTargets == {bag, [anchor |-> "", parts |-> << <<"b", "a", "d">> >>], truediv(bag, a_db3)}

write ==
    \E bag_dir \in WriteTargets :
        LET r == write_yaml(metadata, fs, bag_dir)
        IN  /\ Call("write_yaml", <<bag_dir>>, r)
            /\ fs' = r.fs
            /\ open_files' = open_files + r.opened - r.closed
            /\ UNCHANGED <<open_connections, added_paths, failed_add, added_topics>>

aggregate_channel_stats ==
    \E db \in Databases :
        \E rows \in orderings(query(db)) :
            LET r == get_metadata(db, rows)
            IN  /\ open_connections < MaxOpen
                /\ result' = [op |-> "get_metadata", args |-> <<db, rows>>,
                              exc |-> r.exc, ret |-> r.ret]
                /\ open_connections' = open_connections + r.opened - r.closed
                /\ UNCHANGED <<metadata, fs, open_files, added_paths, failed_add, added_topics>>

\* the interpreter reclaims a connection nothing refers to any more, when it
\* gets to it
finalize ==
    /\ open_connections > 0
    /\ open_connections' = open_connections - 1
    /\ UNCHANGED <<metadata, fs, result, open_files, added_paths, failed_add, added_topics>>

\* the uri strings given to reindex: "bag", "/bag", "bag/", "bad"
Uris ==
    {<<"b", "a", "g">>, <<"/", "b", "a", "g">>, <<"b", "a", "g", "/">>, <<"b", "a", "d">>}

reindex ==
    \E uri \in Uris, storage_id \in {"sqlite3", "mcap", ""},
       serialization_fmt \in {"cdr"}, compression_fmt \in {"", "zstd"},
       compression_mode \in {"", "file"} :
        \E listing \in iterdir(fs, Path(uri)) :
            LET r == reindex_base_reindex(metadata, uri, storage_id, serialization_fmt,
                                          compression_fmt, compression_mode, listing)
                \* whether the call constructs a MetadataWriter of its own
                fresh == storage_id = "sqlite3" /\ is_dir(Path(uri))
            IN  /\ Call("reindex", <<uri, storage_id, serialization_fmt,
                                     compression_fmt, compression_mode>>, r)
                /\ added_paths' = IF ~fresh THEN added_paths
                                  ELSE IF r.exc = NoExc THEN db3_files(listing) ELSE <<>>
                /\ failed_add' = IF fresh THEN r.exc # NoExc ELSE failed_add
                /\ added_topics' = IF fresh THEN <<>> ELSE added_topics
                /\ UNCHANGED <<fs, open_connections, open_files>>

NextFields ==
    \/ set_version
    \/ set_duration
    \/ set_starting_time
    \/ set_message_count
    \/ add_channel
    \/ serialize

NextPaths ==
    \/ add_relative_path
    \/ add_relative_paths
    \/ serialize
    \/ write

NextReindex ==
    \/ reindex
    \/ set_storage_identifier
    \/ set_compression_format
    \/ set_compression_mode

NextAggregate ==
    \/ aggregate_channel_stats
    \/ finalize

Next == NextFields \/ NextPaths \/ NextReindex \/ NextAggregate

SpecFields == Init /\ [][NextFields]_vars
SpecPaths == Init /\ [][NextPaths]_vars
SpecReindex == Init /\ [][NextReindex]_vars
SpecAggregate == Init /\ [][NextAggregate]_vars
Spec == Init /\ [][Next]_vars

---------------------------------------------------------------------------
(* Properties *)

NumericSetters == {"version", "duration", "starting_time", "message_count"}

NonNegative(w) ==
    /\ w.version >= 0
    /\ w.duration >= 0
    /\ w.starting_time >= 0
    /\ w.message_count >= 0
    /\ \A i \in 1..Len(w.topics) : w.topics[i].tm_message_count >= 0

\* what a step that is a call of a numeric setter or of add_topic must do
NumericStep ==
    /\ result'.op \in NumericSetters =>
           LET x == result'.args[1]
           IN  IF x >= 0
               THEN /\ result'.exc = NoExc
                    /\ metadata'[result'.op] = x
               ELSE /\ result'.exc.type = "ValueError"
                    /\ result'.exc.value = x
                    /\ UNCHANGED <<metadata, fs, added_paths, added_topics>>
    /\ result'.op = "add_topic" =>
           LET a == result'.args
           IN  IF a[5] >= 0
               THEN /\ result'.exc = NoExc
                    /\ Len(metadata'.topics) = Len(metadata.topics) + 1
                    /\ SubSeq(metadata'.topics, 1, Len(metadata.topics)) = metadata.topics
                    /\ metadata'.topics[Len(metadata'.topics)].tm_message_count = a[5]
                    /\ metadata'.topics[Len(metadata'.topics)].tm_block.block_name = a[1]
               ELSE /\ result'.exc.type = "ValueError"
                    /\ result'.exc.value = a[5]
                    /\ UNCHANGED <<metadata, fs, added_paths, added_topics>>

\* C3: a numeric setter (version, duration, starting_time, message_count) given
\* n >= 0 succeeds and the field reads back n, and add_topic given a count >= 0
\* appends one entry with that count; given a negative value each raises a
\* ValueError naming the value and leaves the whole MetadataWriter as it was.
\* So every numeric field and every topic's message count is never negative.
C3_NumericMutations == []NonNegative(metadata) /\ [][NumericStep]_vars

\* a negative message count was refused on a writer that holds non-zero fields
\* and a topic, all still in place
C3_Witness ==
    /\ result.op = "message_count"
    /\ result.args[1] < 0
    /\ result.exc.type = "ValueError"
    /\ metadata.message_count = 1
    /\ metadata.version = 1
    /\ Len(metadata.topics) = 1

\* the entry serialize() must list for the arguments of an add_topic call
ListedTopic(a) ==
    [topic_metadata |-> [topic |-> a[1], type |-> a[2], serialization_format |-> a[3],
                         offered_qos_profiles |-> a[4]],
     message_count |-> a[5]]

\* C6: _as_yaml_dict lists under topics_with_message_count one entry per
\* successful add_topic call, in the order of the calls: nothing is reordered
\* and a name added twice is listed twice.
C6_TopicsInInsertionOrder ==
    result.op = "_as_yaml_dict" =>
        result.ret.topics_with_message_count =
            [i \in 1..Len(added_topics) |-> ListedTopic(added_topics[i])]

\* "/y" was added before "/x", and the dictionary has been built
C6_Witness ==
    /\ result.op = "_as_yaml_dict"
    /\ Len(added_topics) = 2
    /\ added_topics[1][1] = "/y"
    /\ added_topics[2][1] = "/x"
    /\ Len(result.ret.topics_with_message_count) = 2

IsAbsoluteArg ==
    \/ /\ result'.op = "add_rel_file_path"
       /\ is_absolute(result'.args[1])
    \/ /\ result'.op = "add_multiple_rel_file_paths"
       /\ \E i \in 1..Len(result'.args[1]) : is_absolute(result'.args[1][i])

\* C4: add_rel_file_path given an absolute path, or add_multiple_rel_file_paths
\* given a list with an absolute path anywhere in it, raises a ValueError and
\* leaves the stored path list exactly as it was before the call.
C4_AbsolutePathLeavesListUnchanged ==
    [][IsAbsoluteArg =>
           /\ result'.exc.type = "ValueError"
           /\ metadata'.relative_file_paths = metadata.relative_file_paths]_vars

IsSorted(q) == \A i, j \in 1..Len(q) : i < j => ~str_lt(q[j], q[i])

\* C5: when no add_rel_* call has failed, the relative_file_paths list that
\* _as_yaml_dict returns is sorted by code point and holds str(p) for exactly
\* the paths p that were added, each as often as it was added.
C5_PathsSortedAndComplete ==
    (result.op = "_as_yaml_dict" /\ ~failed_add) =>
        LET out == result.ret.relative_file_paths
        IN  /\ IsSorted(out)
            /\ BagOfSeq(out) = BagOfSeq([i \in 1..Len(added_paths) |-> str(added_paths[i])])

\* "b.db3" was added before "a.db3", and the dictionary lists a.db3 first
C5_Witness ==
    /\ result.op = "_as_yaml_dict"
    /\ ~failed_add
    /\ added_paths = <<[anchor |-> "", parts |-> <<b_db3>>],
                       [anchor |-> "", parts |-> <<a_db3>>]>>
    /\ result.ret.relative_file_paths = <<a_db3, b_db3>>

\* C7: _as_yaml_dict has no side effect: the MetadataWriter after the call,
\* the stored order of relative_file_paths included, is the one before it (and
\* so a second call returns what the first did).
C7_SerializeLeavesStateUnchanged ==
    [][result'.op = "_as_yaml_dict" =>
           /\ metadata' = metadata
           /\ as_yaml_dict(metadata').ret = result'.ret]_vars

\* what a step that is a call of write_yaml must do
WriteStep ==
    result'.op = "write_yaml" =>
        LET bag_dir == result'.args[1]
            fp == truediv(bag_dir, metadata_yaml)
        IN  IF ~is_dir(bag_dir)
            THEN /\ result'.exc.type = "ValueError"
                 /\ result'.exc.value = bag_dir
                 /\ UNCHANGED <<fs, metadata>>
            ELSE /\ result'.exc = NoExc
                 /\ DOMAIN fs' = DOMAIN fs \cup {fp}
                 /\ \A f \in DOMAIN fs \ {fp} : fs'[f] = fs[f]
                 /\ fs'[fp] = [rosbag2_bagfile_information |-> as_yaml_dict(metadata).ret]

\* C8: write_yaml on a path that is not an existing directory raises a
\* ValueError naming the path, writes no file and leaves the MetadataWriter as
\* it was; on an existing directory it puts the dictionary of the current
\* state into <bag_dir>/metadata.yaml, replacing a file already there, and
\* touches no other file.
C8_WriteYaml == [][WriteStep]_vars

\* a write to a path that is a file was refused, with an earlier metadata.yaml
\* that no longer matches the writer still on disk
C8_Witness ==
    /\ result.op = "write_yaml"
    /\ result.args[1] = truediv(bag, a_db3)
    /\ result.exc.type = "ValueError"
    /\ truediv(bag, metadata_yaml) \in DOMAIN fs
    /\ fs[truediv(bag, metadata_yaml)].rosbag2_bagfile_information.relative_file_paths
           # metadata.relative_file_paths

\* the names of the .db3 files of directory d
Db3Names(d) ==
    {f.parts[Len(f.parts)] :
         f \in {g \in DOMAIN fs : parent(g) = d /\ suffix(g) = <<".", "d", "b", "3">>}}

\* C1: after reindex with storage id "sqlite3" on an existing directory that
\* holds two .db3 files, the directory has a metadata.yaml whose
\* relative_file_paths are exactly the two file names, without the directory,
\* sorted.
C1_ReindexWritesSortedNames ==
    LET uri_dir == Path(result.args[1])
        fp == truediv(uri_dir, metadata_yaml)
    IN  (/\ result.op = "reindex"
         /\ result.args[2] = "sqlite3"
         /\ is_dir(uri_dir)
         /\ Cardinality(Db3Names(uri_dir)) = 2) =>
            /\ fp \in DOMAIN fs
            /\ LET out == fs[fp].rosbag2_bagfile_information.relative_file_paths
               IN  /\ IsSorted(out)
                   /\ Len(out) = 2
                   /\ {out[i] : i \in 1..Len(out)} = Db3Names(uri_dir)

\* C2: reindex with a storage id other than "sqlite3" raises nothing and
\* returns the "not implemented" message naming that storage id, which no
\* ValueError outcome can be taken for, and changes no file, for every uri.
C2_UnsupportedBackend ==
    [][(result'.op = "reindex" /\ result'.args[2] # "sqlite3") =>
           /\ result'.exc = NoExc
           /\ result'.ret.type = "str"
           /\ result'.ret.value = result'.args[2]
           /\ UNCHANGED fs]_vars

\* reindex of an existing bag directory with storage id "mcap" has returned
C2_Witness ==
    /\ result.op = "reindex"
    /\ result.args[2] = "mcap"
    /\ is_dir(Path(result.args[1]))
    /\ result.ret.type = "str"

RowTimes(rows, k) == {rows[i][k] : i \in 1..Len(rows)}
Min(S) == CHOOSE t \in S : \A u \in S : t <= u
Max(S) == CHOOSE t \in S : \A u \in S : t >= u

\* the topics get_metadata returns are the cursor's rows, in their order, one
\* for each topic of the file that has messages, with the number of them
RowsReported ==
    LET db == result.args[1]
        rows == result.args[2]
        topics == result.ret.topic_metadata
    IN  /\ Len(topics) = Len(rows)
        /\ \A i \in 1..Len(rows) :
               /\ topics[i].topic_name = rows[i][1]
               /\ topics[i].message_count =
                      Cardinality({m \in db.messages : m[1] = rows[i][1]})
        /\ {topics[i].topic_name : i \in 1..Len(topics)} = {m[1] : m \in db.messages}
        /\ \A i, j \in 1..Len(topics) :
               topics[i].topic_name = topics[j].topic_name => i = j

C10_NothingLeftOpen == open_connections = 0 /\ open_files = 0

====
